---------------------------- MODULE Spec2Model ----------------------------
(***************************************************************************)
(* A model of stl::vector<T> (include/stl/vector.hpp) and of the           *)
(* uninitialized-memory algorithms it is built on (include/stl/memory.hpp, *)
(* include/stl/utility.hpp).                                               *)
(*                                                                         *)
(* Memory is modelled explicitly: the heap is a set of blocks, each a      *)
(* sequence of slots, each slot either holding a live object or raw bytes. *)
(* Two vector objects, "a" and "b", are constructed, operated on and       *)
(* destroyed.  The element type is either trivial (int: every type trait   *)
(* is true) or non-trivial (the tests' Tracked: every trait is false,      *)
(* moving from an object leaves the value -1 behind).                      *)
(*                                                                         *)
(* Every operation is one action.  An operation is computed on a machine   *)
(* state S (the vectors, the heap, the counters of element events of this  *)
(* operation, the lifecycle violations it committed, and a fault).  A      *)
(* fault is undefined behaviour with no defined outcome (null or freed     *)
(* block dereferenced, index outside the block, block freed twice): the    *)
(* run stops there with fault set, and no postcondition is promised.       *)
(***************************************************************************)
EXTENDS Integers, Sequences, FiniteSets, TLC

\* ------------------------------------------------------------- bounds
MaxBlocks == 4
MaxCap == 4
MaxOps == 4
MaxInit == 3
MaxInsert == 2
MaxCtor == 2
\* a run of push_back calls from a default-constructed vector is followed
\* further than other histories: up to MaxPush pushes and as many pop_back
\* calls, up to capacity MaxRunCap
MaxPush == 6
MaxRunCap == 8
\* a copy or move constructor of T may throw at its first, second, ... call
\* within an operation, up to the call after MaxFuel successful ones
MaxFuel == 2
\* the objects allocated with new and handed to a unique_ptr
MaxObjs == 3

\* size_t arithmetic wraps; the model keeps a 16 bit width, which is far
\* above every capacity the model reaches, as size_t is in the program.
SizeBits == 16
SizeMod == 2 ^ SizeBits

Vecs == {"a", "b"}
\* the unique_ptr objects, and the addresses of the objects they manage
\* (0 is nullptr)
Ptrs == {"p", "q"}
Objs == 1..MaxObjs
Addrs == 1..MaxBlocks
Values == {1, 2}
\* T(): int() is 0, Tracked(int v = 0) has value 0
DefaultVal == 0
\* Tracked(Tracked&&) and operator=(Tracked&&) leave other.value = -1
MovedFrom == -1
\* the indeterminate content of raw storage
Garbage == -2

VARIABLES trivial, vec, heap, pre, last, fault, resv, run, nops, moved, past,
          uptr, objs, held, ulast

vars == <<trivial, vec, heap, pre, last, fault, resv, run, nops, moved, past,
          uptr, objs, held, ulast>>

\* ------------------------------------------------------------- memory
Slot(l, v) == [live |-> l, val |-> v]

RawSlot == Slot(FALSE, Garbage)

RawBlock(n) == [i \in 1..n |-> RawSlot]

NoBlock == [alloc |-> FALSE, slots |-> <<>>]

NoVec == [alive |-> FALSE, data |-> 0, size |-> 0, cap |-> 0]

\* what an operation did: constructor and destructor calls, copies and moves
\* of T, blocks allocated and freed, and xfer, the elements realloc_ and
\* memcpy carried from one block to another
NoEv == [cons |-> 0, des |-> 0, cp |-> 0, mv |-> 0, allocs |-> 0, frees |-> 0, xfer |-> 0]

\* the null pointer, as a reference to a slot
NullRef == [p |-> 0, i |-> 0]

\* the machine state an operation starts from.  mok: every address malloc
\* returned was one it may return; used: malloc was called; threw: the
\* operation left by an exception; ret, rval: the pointer or reference it
\* returned and the value read through it; fuel: how many copy and move
\* constructors of T return before one throws (-1: none ever throws);
\* leak: a block was freed with objects still alive in it.
Start ==
    [vec |-> vec, heap |-> heap, ev |-> NoEv, viol |-> {}, fault |-> "none",
     mok |-> TRUE, used |-> FALSE, threw |-> FALSE, ret |-> NullRef, rval |-> Garbage,
     fuel |-> -1, leak |-> FALSE]

\* the operation is still running: no undefined behaviour so far, and no
\* exception is propagating (nothing in the library catches one)
Ok(S) == S.fault = "none" /\ ~S.threw

Fault(S, f) == IF Ok(S) THEN [S EXCEPT !.fault = f] ELSE S

Viol(S, x) == [S EXCEPT !.viol = @ \cup {x}]

Bump(S, c) == [S EXCEPT !.ev[c] = @ + 1]

\* why slot i (counted from 0) of the block at p cannot be accessed
AccessFault(S, p, i) ==
    IF p = 0 THEN "null_deref"
    ELSE IF ~S.heap[p].alloc THEN "use_after_free"
    ELSE IF i < 0 \/ i >= Len(S.heap[p].slots) THEN "out_of_bounds"
    ELSE "none"

SlotAt(S, p, i) == S.heap[p].slots[i + 1]

SetSlot(S, p, i, s) == [S EXCEPT !.heap[p].slots[i + 1] = s]

\* T's destructor has run on the slot, or was elided for a trivial T
Destroyed(s) == IF trivial THEN s ELSE RawSlot

\* the value left in an object that was moved from
AfterMove(s) == IF trivial THEN s ELSE Slot(s.live, MovedFrom)

\* The addresses malloc may return: the lowest address that is not
\* allocated and that no vector still points to, or an address that was
\* freed while a vector still points to it; null as well for malloc(0).
Dangling(S) == {p \in Addrs : ~S.heap[p].alloc /\ \E v \in Vecs : S.vec[v].data = p}

Clean(S) == {p \in Addrs : ~S.heap[p].alloc /\ \A v \in Vecs : S.vec[v].data # p}

Lowest(A) == {p \in A : \A q \in A : p <= q}

MallocChoices(S, n) ==
    Lowest(Clean(S)) \cup Dangling(S) \cup (IF n = 0 THEN {0} ELSE {})

\* malloc(n * sizeof(T)): the block at address d, d chosen by the caller
\* among MallocChoices; d = 0 is malloc(0) returning a null pointer
Malloc(S, d, n) ==
    IF ~Ok(S) THEN S
    ELSE IF d \notin MallocChoices(S, n) THEN [S EXCEPT !.mok = FALSE, !.used = TRUE]
    ELSE IF d = 0 THEN [S EXCEPT !.used = TRUE]
    ELSE Bump([S EXCEPT !.heap[d] = [alloc |-> TRUE, slots |-> RawBlock(n)],
                        !.used = TRUE], "allocs")

\* free(p)
Free(S, p) ==
    IF ~Ok(S) \/ p = 0 THEN S
    ELSE IF ~S.heap[p].alloc THEN Fault(S, "double_free")
    ELSE Bump([S EXCEPT !.heap[p] = NoBlock,
                        !.leak = @ \/ (~trivial /\ \E k \in 1..Len(S.heap[p].slots) :
                                                       S.heap[p].slots[k].live)],
              "frees")

\* ------------------------------------------- element operations (T)
\* new (p + i) T(v), v an object outside the vector.  how: "cp" for
\* T(const T&), "mv" for T(T&&), "val" for a value constructor.  A copy or
\* move constructor called with no fuel left throws, and no object is made.
ConstructAt(S, p, i, v, how) ==
    IF ~Ok(S) THEN S
    ELSE IF AccessFault(S, p, i) # "none" THEN Fault(S, AccessFault(S, p, i))
    ELSE IF ~trivial /\ how # "val" /\ S.fuel = 0 THEN [S EXCEPT !.threw = TRUE]
    ELSE LET S0 == [S EXCEPT !.fuel = IF @ > 0 /\ ~trivial /\ how # "val" THEN @ - 1 ELSE @]
             S1 == IF SlotAt(S0, p, i).live /\ ~trivial
                   THEN Viol(S0, "construct_on_live") ELSE S0
             S2 == SetSlot(S1, p, i, Slot(TRUE, v))
         IN  IF trivial THEN S2
             ELSE IF how = "val" THEN Bump(S2, "cons") ELSE Bump(Bump(S2, "cons"), how)

\* reading the object in slot i of p as a T
ReadCheck(S, p, i) ==
    IF ~Ok(S) THEN S
    ELSE IF AccessFault(S, p, i) # "none" THEN Fault(S, AccessFault(S, p, i))
    ELSE IF ~SlotAt(S, p, i).live THEN Viol(S, "read_uninitialized")
    ELSE S

\* construct_at(dp + di, *(sp + si)): copy-construct from another slot
CopyConstructFrom(S, dp, di, sp, si) ==
    LET S1 == ReadCheck(S, sp, si)
    IN  IF ~Ok(S1) THEN S1 ELSE ConstructAt(S1, dp, di, SlotAt(S1, sp, si).val, "cp")

\* new (dp + di) T(stl::move(sp[si]))
MoveConstructFrom(S, dp, di, sp, si) ==
    LET S1 == ReadCheck(S, sp, si)
    IN  IF ~Ok(S1) THEN S1
        ELSE LET S2 == ConstructAt(S1, dp, di, SlotAt(S1, sp, si).val, "mv")
             IN  IF ~Ok(S2) THEN S2
                 ELSE SetSlot(S2, sp, si, AfterMove(SlotAt(S2, sp, si)))

\* the slot after an assignment of value v: no constructor runs, so for a
\* non-trivial T a raw slot stays raw
Assigned(s, v) == Slot(IF trivial THEN TRUE ELSE s.live, v)

\* p[i] = v (T::operator=(const T&))
CopyAssign(S, p, i, v) ==
    IF ~Ok(S) THEN S
    ELSE IF AccessFault(S, p, i) # "none" THEN Fault(S, AccessFault(S, p, i))
    ELSE LET S1 == IF ~SlotAt(S, p, i).live /\ ~trivial
                   THEN Viol(S, "assign_to_uninitialized") ELSE S
             S2 == SetSlot(S1, p, i, Assigned(SlotAt(S1, p, i), v))
         IN  IF trivial THEN S2 ELSE Bump(S2, "cp")

\* dp[di] = stl::move(sp[si]) (T::operator=(T&&))
MoveAssign(S, dp, di, sp, si) ==
    LET S1 == ReadCheck(S, sp, si)
    IN  IF ~Ok(S1) THEN S1
        ELSE IF AccessFault(S1, dp, di) # "none" THEN Fault(S1, AccessFault(S1, dp, di))
        ELSE LET S2 == IF ~SlotAt(S1, dp, di).live /\ ~trivial
                       THEN Viol(S1, "assign_to_uninitialized") ELSE S1
                 src == SlotAt(S2, sp, si)
                 dst == IF trivial THEN Slot(src.live, src.val)
                        ELSE Assigned(SlotAt(S2, dp, di), src.val)
                 S3 == SetSlot(S2, dp, di, dst)
                 S4 == SetSlot(S3, sp, si, AfterMove(SlotAt(S3, sp, si)))
             IN  IF trivial THEN S4 ELSE Bump(S4, "mv")

\* ---------------------------------------- memory.hpp: the algorithms
\* destroy_at(p + i): p->~T(), which is no code at all for a trivial T
destroy_at(S, p, i) ==
    IF ~Ok(S) \/ trivial THEN S
    ELSE IF AccessFault(S, p, i) # "none" THEN Fault(S, AccessFault(S, p, i))
    ELSE LET S1 == IF ~SlotAt(S, p, i).live THEN Viol(S, "destroy_uninitialized") ELSE S
         IN  Bump(SetSlot(S1, p, i, Destroyed(SlotAt(S1, p, i))), "des")

\* destroy(p + i, p + j): while (start != end) destroy_at(start++)
RECURSIVE destroy(_, _, _, _)
destroy(S, p, i, j) ==
    IF ~Ok(S) \/ i = j THEN S
    ELSE destroy(destroy_at(S, p, i), p, (i + 1) % SizeMod, j)

\* memplace(p + i, p + j, v): while (start != end) *start++ = object
RECURSIVE memplace(_, _, _, _, _)
memplace(S, p, i, j, v) ==
    IF ~Ok(S) \/ i = j THEN S
    ELSE memplace(CopyAssign(S, p, i, v), p, (i + 1) % SizeMod, j, v)

\* the correctness path of fill: while (start != end) construct_at(start++, object)
RECURSIVE fill_construct(_, _, _, _, _)
fill_construct(S, p, i, j, v) ==
    IF ~Ok(S) \/ i = j THEN S
    ELSE fill_construct(ConstructAt(S, p, i, v, "cp"), p, (i + 1) % SizeMod, j, v)

\* fill taking the fast path for every T
fill_assign(S, p, i, j, v) == memplace(S, p, i, j, v)

\* fill(p + i, p + j, v)
fill(S, p, i, j, v) ==
    IF trivial THEN memplace(S, p, i, j, v) ELSE fill_construct(S, p, i, j, v)

\* memcpy(dp, sp, len * sizeof(T)): the bytes of len slots, raw or not
memcpy(S, dp, sp, len) ==
    IF ~Ok(S) \/ len = 0 THEN S
    ELSE IF AccessFault(S, sp, len - 1) # "none" THEN Fault(S, AccessFault(S, sp, len - 1))
    ELSE IF AccessFault(S, dp, len - 1) # "none" THEN Fault(S, AccessFault(S, dp, len - 1))
    ELSE [S EXCEPT !.heap[dp].slots =
            [k \in 1..Len(@) |-> IF k <= len THEN S.heap[sp].slots[k] ELSE @[k]],
                   !.ev.xfer = @ + len]

\* the correctness path of construct: construct_at(dest + i, *(src + i))
RECURSIVE construct_loop(_, _, _, _, _)
construct_loop(S, dp, sp, i, len) ==
    IF ~Ok(S) \/ i >= len THEN S
    ELSE construct_loop(CopyConstructFrom(S, dp, i, sp, i), dp, sp, i + 1, len)

\* construct(dest, src, len)
construct(S, dp, sp, len) ==
    IF trivial THEN memcpy(S, dp, sp, len) ELSE construct_loop(S, dp, sp, 0, len)

\* release(p, p + n): destroy the n elements and free the block
release(S, p, n) ==
    IF p = 0 THEN S
    ELSE Free(IF ~trivial THEN destroy(S, p, 0, n) ELSE S, p)

\* c_erase(p + i, p + e, n)
RECURSIVE c_erase_loop(_, _, _, _, _)
c_erase_loop(S, p, i, e, n) ==
    IF ~Ok(S) \/ i = (e - n) % SizeMod THEN S
    ELSE c_erase_loop(MoveAssign(S, p, i, p, (i + n) % SizeMod), p, (i + 1) % SizeMod, e, n)

c_erase(S, p, i, e, n) ==
    destroy(c_erase_loop(S, p, i, e, n), p, (e - n) % SizeMod, e)

\* ------------------------------------------------ utility.hpp
\* max(f, s): f > s ? f : s
max(f, s) == IF f > s THEN f ELSE s

\* a swap that copies: T temp = a; a = b; b = a (the body of copy_swap), on
\* two slots
stl_swap_copy(S, p, i, q, j) ==
    LET S1 == ReadCheck(ReadCheck(S, p, i), q, j)
    IN  IF ~Ok(S1) THEN S1
        ELSE CopyAssign(CopyAssign(S1, p, i, SlotAt(S1, q, j).val), q, j, SlotAt(S1, q, j).val)

\* swap(a, b), a the object in slot i of p and b the one in slot j of q:
\* T temp = stl::move(a); a = stl::move(b); b = stl::move(temp); and temp is
\* destroyed at the end of the function
stl_swap(S, p, i, q, j) ==
    LET S1 == ReadCheck(S, p, i)
    IN  IF ~Ok(S1) THEN S1
        ELSE LET temp == SlotAt(S1, p, i).val
                 S2 == IF trivial THEN S1
                       ELSE Bump(Bump(SetSlot(S1, p, i, AfterMove(SlotAt(S1, p, i))),
                                      "cons"), "mv")
                 S3 == MoveAssign(S2, p, i, q, j)
             IN  IF ~Ok(S3) THEN S3
                 ELSE LET S4 == IF ~SlotAt(S3, q, j).live /\ ~trivial
                                THEN Viol(S3, "assign_to_uninitialized") ELSE S3
                          S5 == SetSlot(S4, q, j, Assigned(SlotAt(S4, q, j), temp))
                      IN  IF trivial THEN S5 ELSE Bump(Bump(S5, "mv"), "des")

\* copy_swap(a, b): T temp = a; a = b; b = a;  the pair <<a, b>> afterwards
copy_swap(a, b) ==
    LET temp == a
        a1 == b
        b1 == a1
    IN  <<a1, b1>>

\* ------------------------------------------------ vector.hpp
\* init_data_(): data_ = malloc(cap_ * sizeof(T))
init_data_(S, v, d) ==
    [Malloc(S, d, S.vec[v].cap) EXCEPT !.vec[v].data = d]

\* the non-trivial path of realloc_: new (dest + i) T(stl::move(data_[i]))
RECURSIVE realloc_move(_, _, _, _, _)
realloc_move(S, dp, sp, i, len) ==
    IF ~Ok(S) \/ i >= len THEN S
    ELSE LET S1 == MoveConstructFrom(S, dp, i, sp, i)
         IN  realloc_move(IF Ok(S1) THEN Bump(S1, "xfer") ELSE S1, dp, sp, i + 1, len)

\* realloc_ transferring one element too few
realloc_short(S, v, n, d) ==
    LET V == S.vec[v]
        newcap == IF n = 0 THEN (IF V.cap = 0 THEN 2 ELSE (V.cap * 2) % SizeMod) ELSE n
        less == IF V.size = 0 THEN 0 ELSE V.size - 1
        S1 == Malloc([S EXCEPT !.vec[v].cap = newcap], d, newcap)
        S2 == IF trivial THEN Free(memcpy(S1, d, V.data, less), V.data)
              ELSE release(realloc_move(S1, d, V.data, 0, less), V.data, V.size)
    IN  [S2 EXCEPT !.vec[v].data = d]

\* realloc_ that frees the old block without destroying the moved-from
\* elements
realloc_leaky(S, v, n, d) ==
    LET V == S.vec[v]
        newcap == IF n = 0 THEN (IF V.cap = 0 THEN 2 ELSE (V.cap * 2) % SizeMod) ELSE n
        S1 == Malloc([S EXCEPT !.vec[v].cap = newcap], d, newcap)
        S2 == IF trivial THEN Free(memcpy(S1, d, V.data, V.size), V.data)
              ELSE Free(realloc_move(S1, d, V.data, 0, V.size), V.data)
    IN  [S2 EXCEPT !.vec[v].data = d]

\* realloc_ whose default growth is one slot instead of doubling
realloc_by_one(S, v, n, d) ==
    LET V == S.vec[v]
        newcap == IF n = 0 THEN (V.cap + 1) % SizeMod ELSE n
        S1 == Malloc([S EXCEPT !.vec[v].cap = newcap], d, newcap)
        S2 == IF trivial THEN Free(memcpy(S1, d, V.data, V.size), V.data)
              ELSE release(realloc_move(S1, d, V.data, 0, V.size), V.data, V.size)
    IN  [S2 EXCEPT !.vec[v].data = d]

\* realloc_ that copies the elements into the new block instead of moving
\* them
realloc_copy(S, v, n, d) ==
    LET V == S.vec[v]
        newcap == IF n = 0 THEN (IF V.cap = 0 THEN 2 ELSE (V.cap * 2) % SizeMod) ELSE n
        S1 == Malloc([S EXCEPT !.vec[v].cap = newcap], d, newcap)
        S2 == IF trivial THEN Free(memcpy(S1, d, V.data, V.size), V.data)
              ELSE release(construct_loop(S1, d, V.data, 0, V.size), V.data, V.size)
    IN  [S2 EXCEPT !.vec[v].data = d]

\* realloc_(n), the new block at address d
realloc_(S, v, n, d) ==
    LET V == S.vec[v]
        newcap == IF n = 0 THEN (IF V.cap = 0 THEN 2 ELSE (V.cap * 2) % SizeMod) ELSE n
        S1 == Malloc([S EXCEPT !.vec[v].cap = newcap], d, newcap)
        S2 == IF trivial THEN Free(memcpy(S1, d, V.data, V.size), V.data)
              ELSE release(realloc_move(S1, d, V.data, 0, V.size), V.data, V.size)
    IN  IF ~Ok(S2) THEN S2 ELSE [S2 EXCEPT !.vec[v].data = d]

\* a constructor left by an exception has built no object: the members are
\* gone and ~vector() will not run
Unbuilt(S, v) == IF S.threw THEN [S EXCEPT !.vec[v] = NoVec] ELSE S

\* vector()
ctor_default(S, v) ==
    [S EXCEPT !.vec[v] = [alive |-> TRUE, data |-> 0, size |-> 0, cap |-> 0]]

\* vector(size_t cap)
ctor_cap(S, v, n, d) ==
    init_data_([S EXCEPT !.vec[v] = [alive |-> TRUE, data |-> 0, size |-> 0, cap |-> n]], v, d)

\* the fill constructor filling one slot too few
ctor_fill_short(S, v, n, val, d) ==
    LET S1 == init_data_([S EXCEPT !.vec[v] = [alive |-> TRUE, data |-> 0,
                                               size |-> 0, cap |-> n]], v, d)
        S2 == [S1 EXCEPT !.vec[v].size = n]
        m == IF n = 0 THEN 0 ELSE n - 1
    IN  IF trivial THEN memplace(S2, d, 0, m, val)
        ELSE fill(S2, d, 0, m, val)

\* vector(size_t cap, const T &value) and vector(size_t cap, T &&value)
ctor_fill(S, v, n, val, d) ==
    LET S1 == init_data_([S EXCEPT !.vec[v] = [alive |-> TRUE, data |-> 0,
                                               size |-> 0, cap |-> n]], v, d)
        S2 == [S1 EXCEPT !.vec[v].size = n]
    IN  IF trivial THEN memplace(S2, d, 0, S2.vec[v].cap, val)
        ELSE Unbuilt(fill(S2, d, 0, S2.vec[v].size, val), v)

\* a copy constructor that copies the pointer instead of the elements
ctor_copy_shallow(S, v, w, d) ==
    LET O == S.vec[w]
    IN  [S EXCEPT !.vec[v] = [alive |-> TRUE, data |-> O.data, size |-> O.size,
                              cap |-> O.cap]]

\* vector(const vector &other)
ctor_copy(S, v, w, d) ==
    LET O == S.vec[w]
        S1 == init_data_([S EXCEPT !.vec[v] = [alive |-> TRUE, data |-> 0,
                                               size |-> O.size, cap |-> O.cap]], v, d)
    IN  Unbuilt(construct(S1, d, O.data, O.size), v)

\* a move constructor that leaves the source its pointer
ctor_move_keep(S, v, w) ==
    LET O == S.vec[w]
    IN  [S EXCEPT !.vec[v] = [alive |-> TRUE, data |-> O.data, size |-> O.size,
                              cap |-> O.cap]]

\* vector(vector &&other)
ctor_move(S, v, w) ==
    LET O == S.vec[w]
    IN  [S EXCEPT !.vec[v] = [alive |-> TRUE, data |-> O.data, size |-> O.size,
                              cap |-> O.cap],
                  !.vec[w].data = 0]

\* the loop of vector(std::initializer_list<T>): new (data_ + size_++) T(v)
RECURSIVE init_loop(_, _, _)
init_loop(S, v, list) ==
    IF ~Ok(S) \/ list = <<>> THEN S
    ELSE LET V == S.vec[v]
             S1 == ConstructAt(S, V.data, V.size, Head(list), "cp")
         IN  init_loop([S1 EXCEPT !.vec[v].size = V.size + 1], v, Tail(list))

\* vector(std::initializer_list<T> init_list)
ctor_list(S, v, list, d) ==
    Unbuilt(init_loop(init_data_([S EXCEPT !.vec[v] = [alive |-> TRUE, data |-> 0,
                                                       size |-> 0, cap |-> Len(list)]],
                                 v, d), v, list), v)

\* ~vector(): release(data_, data_ + size_); the object is gone afterwards
dtor(S, v) ==
    [release(S, S.vec[v].data, S.vec[v].size) EXCEPT !.vec[v] = NoVec]

\* copy assignment without the test for this == &other
assign_copy_nocheck(S, v, w, d) ==
    LET S1 == release(S, S.vec[v].data, S.vec[v].size)
        O == S1.vec[w]
        S2 == init_data_([S1 EXCEPT !.vec[v].size = O.size, !.vec[v].cap = O.cap], v, d)
    IN  construct(S2, d, O.data, O.size)

\* operator=(const vector &other)
assign_copy(S, v, w, d) ==
    IF v = w THEN S
    ELSE LET O == S.vec[w]
             S1 == release(S, S.vec[v].data, S.vec[v].size)
             S2 == init_data_([S1 EXCEPT !.vec[v].size = O.size, !.vec[v].cap = O.cap], v, d)
         IN  construct(S2, d, O.data, O.size)

\* operator=(vector &&other)
assign_move(S, v, w) ==
    LET O == S.vec[w]
        S1 == release(S, S.vec[v].data, S.vec[v].size)
        S2 == [S1 EXCEPT !.vec[v].data = O.data, !.vec[v].size = O.size,
                         !.vec[v].cap = O.cap]
    IN  [S2 EXCEPT !.vec[w].data = 0]

\* reserve growing by the default policy instead of to n
reserve_double(S, v, n, d) ==
    IF S.vec[v].cap >= n THEN S ELSE realloc_(S, v, 0, d)

\* reserve that reallocates already when n equals the capacity
reserve_eager(S, v, n, d) ==
    IF S.vec[v].cap > n THEN S ELSE realloc_(S, v, n, d)

\* reserve(n)
reserve(S, v, n, d) ==
    IF S.vec[v].cap >= n THEN S ELSE realloc_(S, v, n, d)

\* resize that leaves the new trailing slots as they are
resize_nofill(S, v, n, d) ==
    LET S1 == IF n > S.vec[v].cap THEN realloc_(S, v, n, d) ELSE S
        V == S1.vec[v]
        S2 == IF n < V.size THEN destroy(S1, V.data, n, V.size) ELSE S1
    IN  [S2 EXCEPT !.vec[v].size = n]

\* resize(n)
resize(S, v, n, d) ==
    LET S1 == IF n > S.vec[v].cap THEN realloc_(S, v, n, d) ELSE S
        V == S1.vec[v]
        S2 == IF n < V.size THEN destroy(S1, V.data, n, V.size)
              ELSE IF n > V.size THEN fill(S1, V.data, V.size, n, DefaultVal)
              ELSE S1
    IN  IF ~Ok(S2) THEN S2 ELSE [S2 EXCEPT !.vec[v].size = n]

\* at with the bound check off by one: i > size_
at_off_by_one(S, v, i) ==
    LET V == S.vec[v]
    IN  IF i > V.size THEN [S EXCEPT !.threw = TRUE]
        ELSE LET S1 == ReadCheck(S, V.data, i)
             IN  IF ~Ok(S1) THEN S1
                 ELSE [S1 EXCEPT !.ret = [p |-> V.data, i |-> i],
                                 !.rval = SlotAt(S1, V.data, i).val]

\* at(i): the reference returned, and the value read through it
at(S, v, i) ==
    LET V == S.vec[v]
    IN  IF i >= V.size THEN [S EXCEPT !.threw = TRUE]
        ELSE LET S1 == ReadCheck(S, V.data, i)
             IN  IF ~Ok(S1) THEN S1
                 ELSE [S1 EXCEPT !.ret = [p |-> V.data, i |-> i],
                                 !.rval = SlotAt(S1, V.data, i).val]

\* v[i] = val through operator[]
set_elem(S, v, i, val) ==
    CopyAssign(S, S.vec[v].data, i, val)

\* push_back that reallocates one element early
push_back_eager(S, v, val, how, d) ==
    LET S1 == IF S.vec[v].cap <= S.vec[v].size + 1 THEN realloc_(S, v, 0, d) ELSE S
        V == S1.vec[v]
        S2 == ConstructAt(S1, V.data, V.size, val, how)
    IN  [S2 EXCEPT !.vec[v].size = (V.size + 1) % SizeMod]

\* push_back(const T &val) (how = "cp") and push_back(T &&val) (how = "mv")
push_back(S, v, val, how, d) ==
    LET S1 == IF S.vec[v].cap = S.vec[v].size THEN realloc_(S, v, 0, d) ELSE S
        V == S1.vec[v]
        S2 == ConstructAt(S1, V.data, V.size, val, how)
    IN  IF ~Ok(S1) THEN S1 ELSE [S2 EXCEPT !.vec[v].size = (V.size + 1) % SizeMod]

\* pop_back that only decrements the length
pop_back_nodestroy(S, v) ==
    [S EXCEPT !.vec[v].size = (S.vec[v].size - 1) % SizeMod]

\* pop_back()
pop_back(S, v) ==
    LET V == S.vec[v]
        S1 == IF ~trivial THEN destroy_at(S, V.data, (V.size - 1) % SizeMod) ELSE S
    IN  [S1 EXCEPT !.vec[v].size = (V.size - 1) % SizeMod]

\* clear that leaves the first element alone
clear_from_second(S, v) ==
    [destroy(S, S.vec[v].data, IF S.vec[v].size = 0 THEN 0 ELSE 1, S.vec[v].size)
        EXCEPT !.vec[v].size = 0]

\* clear()
clear(S, v) ==
    [destroy(S, S.vec[v].data, 0, S.vec[v].size) EXCEPT !.vec[v].size = 0]

\* equals(this, other), of algorithm.hpp: the same length and equal elements
\* at every index.  The result is left in rval: 1 for true, 0 for false.
RECURSIVE equals_loop(_, _, _, _, _)
equals_loop(S, ap, bp, i, len) ==
    IF ~Ok(S) THEN S
    ELSE IF i >= len THEN [S EXCEPT !.rval = 1]
    ELSE LET S1 == ReadCheck(ReadCheck(S, ap, i), bp, i)
         IN  IF ~Ok(S1) THEN S1
             ELSE IF SlotAt(S1, ap, i).val # SlotAt(S1, bp, i).val
             THEN [S1 EXCEPT !.rval = 0]
             ELSE equals_loop(S1, ap, bp, i + 1, len)

equals(S, v, w) ==
    IF S.vec[v].size # S.vec[w].size THEN [S EXCEPT !.rval = 0]
    ELSE equals_loop(S, S.vec[v].data, S.vec[w].data, 0, S.vec[v].size)

\* operator==(other): return equals(this, other)
op_eq(S, v, w) == equals(S, v, w)

\* operator!=(other): return !(this == other).  `this` is a pointer and
\* other a vector: no operator== takes the two, and the expression is
\* ill-formed wherever operator!= is used
op_ne(S, v, w) == Fault(S, "ill_formed")

\* swap(other)
swap(S, v, w) ==
    LET A == S.vec[v]
        B == S.vec[w]
        sz == copy_swap(A.size, B.size)
        cp == copy_swap(A.cap, B.cap)
        dt == copy_swap(A.data, B.data)
    IN  [S EXCEPT !.vec[v] = [A EXCEPT !.size = sz[1], !.cap = cp[1], !.data = dt[1]],
                  !.vec[w] = [B EXCEPT !.size = sz[2], !.cap = cp[2], !.data = dt[2]]]

\* the first loop of insert:
\* for (back = size_after_insertion - 1; back >= size_; --back, --front)
\*     data_[back] = stl::move(data_[front]);
RECURSIVE insert_shift(_, _, _, _, _)
insert_shift(S, p, back, front, size) ==
    IF ~Ok(S) \/ ~(back >= size) THEN S
    ELSE insert_shift(MoveAssign(S, p, back, p, front), p,
                      (back - 1) % SizeMod, (front - 1) % SizeMod, size)

\* the second loop of insert: *loc++ = val, num_insertions times
RECURSIVE insert_put(_, _, _, _, _)
insert_put(S, p, k, val, i) ==
    IF ~Ok(S) \/ i = 0 THEN S
    ELSE insert_put(CopyAssign(S, p, k, val), p, (k + 1) % SizeMod, val, i - 1)

\* insert(data_ + k, val, n)
insert(S, v, k, val, n, d) ==
    LET V0 == S.vec[v]
        size_after_insertion == (V0.size + n) % SizeMod
        S1 == IF size_after_insertion > V0.cap
              THEN realloc_(S, v, max((V0.cap * 2) % SizeMod, size_after_insertion), d)
              ELSE S
        V == S1.vec[v]
        S2 == insert_shift(S1, V.data, (size_after_insertion - 1) % SizeMod,
                           (V.size - 1) % SizeMod, V.size)
        S3 == insert_put(S2, V.data, k, val, n)
    IN  IF ~Ok(S3) THEN S3
        ELSE [S3 EXCEPT !.vec[v].size = (V.size + n) % SizeMod,
                        !.ret = [p |-> V.data, i |-> k]]

\* erase(data_ + k)
erase(S, v, k) ==
    [c_erase(S, S.vec[v].data, k, S.vec[v].size, 1)
        EXCEPT !.vec[v].size = (S.vec[v].size - 1) % SizeMod]

\* erase(data_ + i, data_ + j)
erase_range(S, v, i, j) ==
    [c_erase(S, S.vec[v].data, i, S.vec[v].size, j - i)
        EXCEPT !.vec[v].size = (S.vec[v].size - (j - i)) % SizeMod]

\* ------------------------------------------------ the program's steps
\* the literal sequences {}, {1}, {1, 2}, ... given to the initializer-list
\* constructor: distinct values, so that an element names its first index
Lists == {[i \in 1..n |-> i] : n \in 0..MaxInit}

\* the addresses worth offering to malloc in an operation on v: a superset
\* of what MallocChoices allows at the time of the call (v's own block may
\* have been freed by then)
Dests(v) == {0} \cup Lowest(Clean(Start)) \cup Dangling(Start) \cup ({vec[v].data} \ {0})

\* what the last operation was: its name, the vector it was called on, its
\* arguments, and what it did (filled in by Commit)
Info(op, v) ==
    [op |-> op, v |-> v, w |-> "", i |-> 0, j |-> 0, n |-> 0, val |-> 0, how |-> "",
     list |-> <<>>, ev |-> NoEv, viol |-> {}, threw |-> FALSE, ret |-> NullRef,
     rval |-> Garbage, moved |-> FALSE, fuel |-> -1]

\* resv remembers the last reserve(n) called on an empty vector, what data()
\* and capacity() were right after it, and how many push_back calls have
\* followed it with no other operation in between
NoResv == [on |-> FALSE, v |-> "", n |-> 0, data |-> 0, cap |-> 0, pushes |-> 0]

Reserved(S, info) ==
    IF ~Ok(S) THEN NoResv
    ELSE IF info.op = "reserve" /\ vec[info.v].size = 0
    THEN [on |-> TRUE, v |-> info.v, n |-> info.n, data |-> S.vec[info.v].data,
          cap |-> S.vec[info.v].cap, pushes |-> 0]
    ELSE IF info.op = "push_back" /\ resv.on /\ resv.v = info.v
    THEN [resv EXCEPT !.pushes = @ + 1]
    ELSE NoResv

\* run follows a vector from its default construction through push_back
\* calls and then pop_back calls, with no other operation in between: the
\* values pushed, the number of pops, and the constructor calls, destructor
\* calls and element transfers of all these operations together
NoRun == [on |-> FALSE, v |-> "", pushed |-> <<>>, pops |-> 0, cons |-> 0, des |-> 0,
          xfer |-> 0]

Ran(S, info) ==
    IF ~Ok(S) THEN NoRun
    ELSE IF info.op = "ctor_default" THEN [NoRun EXCEPT !.on = TRUE, !.v = info.v]
    ELSE IF info.op = "push_back" /\ run.on /\ run.v = info.v /\ run.pops = 0
    THEN [run EXCEPT !.pushed = Append(@, info.val), !.cons = @ + S.ev.cons,
                     !.des = @ + S.ev.des, !.xfer = @ + S.ev.xfer]
    ELSE IF info.op = "pop_back" /\ run.on /\ run.v = info.v /\ run.pops < Len(run.pushed)
    THEN [run EXCEPT !.pops = @ + 1, !.cons = @ + S.ev.cons, !.des = @ + S.ev.des]
    ELSE NoRun

\* moved holds the vectors that were the source of a move constructor or a
\* move assignment and that no operation has written to since
Moved(S, info) ==
    IF S.fault # "none" THEN moved
    ELSE IF info.op \in {"ctor_move", "assign_move"} THEN (moved \ {info.v}) \cup {info.w}
    ELSE IF info.op \in {"at", "eq", "ne"} THEN moved
    ELSE IF info.op = "swap" THEN moved \ {info.v, info.w}
    ELSE moved \ {info.v}

\* past holds what went wrong with an object's lifetime in the operations so
\* far: a destructor run on storage holding no object, a constructor run
\* over a live object, a block freed with live objects in it
Past(S) ==
    IF S.fault # "none" THEN past
    ELSE past \cup (S.viol \cap {"destroy_uninitialized", "construct_on_live"})
              \cup (IF S.leak THEN {"freed_live"} ELSE {})

\* The operation computed as S becomes the next state.  d is the address
\* offered to malloc: the step exists for the addresses malloc may return
\* (and once, with d = 0, when malloc is not called).  A faulted operation
\* leaves the state as it was, with fault set; an operation left by an
\* exception leaves what it had done until then.
Commit(S, info, d) ==
    /\ S.mok
    /\ S.used \/ d = 0
    /\ S.fault = "none" => \A x \in Vecs :
          \/ S.vec[x].cap <= MaxCap
          \/ Ran(S, info).on /\ S.vec[x].cap <= MaxRunCap
    /\ pre' = [vec |-> vec, heap |-> heap]
    /\ last' = [info EXCEPT !.ev = S.ev, !.viol = S.viol, !.threw = S.threw,
                            !.ret = S.ret, !.rval = S.rval, !.moved = info.v \in moved]
    /\ vec' = IF S.fault = "none" THEN S.vec ELSE vec
    /\ heap' = IF S.fault = "none" THEN S.heap ELSE heap
    /\ fault' = S.fault
    /\ resv' = Reserved(S, info)
    /\ run' = Ran(S, info)
    /\ moved' = Moved(S, info)
    /\ past' = Past(S)
    /\ nops' = nops + 1
    /\ UNCHANGED <<trivial, uptr, objs, held, ulast>>

Ready == fault = "none" /\ nops < MaxOps

CanBuild(v) == Ready /\ ~vec[v].alive

CanUse(v) == Ready /\ vec[v].alive

\* v is in a run that may go on, and is the only vector there is
InRun(v) ==
    /\ fault = "none"
    /\ vec[v].alive
    /\ \A w \in Vecs \ {v} : ~vec[w].alive
    /\ run.on /\ run.v = v
    /\ Len(run.pushed) + run.pops < 2 * MaxPush

DefaultCtor(v) ==
    /\ CanBuild(v)
    /\ Commit(ctor_default(Start, v), Info("ctor_default", v), 0)

CapCtor(v) ==
    /\ CanBuild(v)
    /\ \E n \in 0..MaxCtor, d \in Dests(v) :
          Commit(ctor_cap(Start, v, n, d), [Info("ctor_cap", v) EXCEPT !.n = n], d)

FillCtor(v) ==
    /\ CanBuild(v)
    /\ \E n \in 0..MaxCtor, val \in Values, d \in Dests(v) :
          Commit(ctor_fill(Start, v, n, val, d),
                 [Info("ctor_fill", v) EXCEPT !.n = n, !.val = val], d)

CopyCtor(v) ==
    /\ CanBuild(v)
    /\ \E w \in Vecs \ {v}, d \in Dests(v) :
          /\ vec[w].alive
          /\ Commit(ctor_copy(Start, v, w, d), [Info("ctor_copy", v) EXCEPT !.w = w], d)

MoveCtor(v) ==
    /\ CanBuild(v)
    /\ \E w \in Vecs \ {v} :
          /\ vec[w].alive
          /\ Commit(ctor_move(Start, v, w), [Info("ctor_move", v) EXCEPT !.w = w], 0)

ListCtor(v) ==
    /\ CanBuild(v)
    /\ \E list \in Lists, d \in Dests(v) :
          Commit(ctor_list(Start, v, list, d),
                 [Info("ctor_list", v) EXCEPT !.list = list, !.n = Len(list)], d)

Dtor(v) ==
    /\ CanUse(v)
    /\ Commit(dtor(Start, v), Info("dtor", v), 0)

AssignCopy(v) ==
    /\ CanUse(v)
    /\ \E w \in Vecs, d \in Dests(v) :
          /\ vec[w].alive
          /\ Commit(assign_copy(Start, v, w, d), [Info("assign_copy", v) EXCEPT !.w = w], d)

AssignMove(v) ==
    /\ CanUse(v)
    /\ \E w \in Vecs \ {v} :
          /\ vec[w].alive
          /\ Commit(assign_move(Start, v, w), [Info("assign_move", v) EXCEPT !.w = w], 0)

Reserve(v) ==
    /\ CanUse(v)
    /\ \E n \in 0..MaxCap, d \in Dests(v) :
          Commit(reserve(Start, v, n, d), [Info("reserve", v) EXCEPT !.n = n], d)

Resize(v) ==
    /\ CanUse(v)
    /\ \E n \in 0..MaxCap, d \in Dests(v) :
          Commit(resize(Start, v, n, d), [Info("resize", v) EXCEPT !.n = n], d)

At(v) ==
    /\ CanUse(v)
    /\ \E i \in 0..MaxCap :
          Commit(at(Start, v, i), [Info("at", v) EXCEPT !.i = i], 0)

SetElem(v) ==
    /\ CanUse(v)
    /\ \E i \in 0..MaxCap, val \in Values :
          /\ i < vec[v].size
          /\ Commit(set_elem(Start, v, i, val),
                    [Info("set_elem", v) EXCEPT !.i = i, !.val = val], 0)

PushBack(v) ==
    /\ CanUse(v) \/ (InRun(v) /\ Len(run.pushed) < MaxPush)
    /\ \E val \in Values, how \in {"cp", "mv"}, d \in Dests(v) :
          Commit(push_back(Start, v, val, how, d),
                 [Info("push_back", v) EXCEPT !.val = val, !.how = how], d)

PopBack(v) ==
    /\ CanUse(v) \/ InRun(v)
    /\ vec[v].size > 0
    /\ Commit(pop_back(Start, v), Info("pop_back", v), 0)

Clear(v) ==
    /\ CanUse(v)
    /\ Commit(clear(Start, v), Info("clear", v), 0)

Swap(v) ==
    /\ CanUse(v)
    /\ \E w \in Vecs \ {v} :
          /\ vec[w].alive
          /\ Commit(swap(Start, v, w), [Info("swap", v) EXCEPT !.w = w], 0)

Equal(v) ==
    /\ CanUse(v)
    /\ \E w \in Vecs :
          /\ vec[w].alive
          /\ Commit(op_eq(Start, v, w), [Info("eq", v) EXCEPT !.w = w], 0)

NotEqual(v) ==
    /\ CanUse(v)
    /\ \E w \in Vecs :
          /\ vec[w].alive
          /\ Commit(op_ne(Start, v, w), [Info("ne", v) EXCEPT !.w = w], 0)

Insert(v) ==
    /\ CanUse(v)
    /\ \E k \in 0..MaxCap, val \in Values, n \in 1..MaxInsert, d \in Dests(v) :
          /\ k <= vec[v].size
          /\ Commit(insert(Start, v, k, val, n, d),
                    [Info("insert", v) EXCEPT !.i = k, !.val = val, !.n = n], d)

Erase(v) ==
    /\ CanUse(v)
    /\ \E k \in 0..MaxCap :
          /\ k < vec[v].size
          /\ Commit(erase(Start, v, k), [Info("erase", v) EXCEPT !.i = k, !.n = 1], 0)

EraseRange(v) ==
    /\ CanUse(v)
    /\ \E i \in 0..MaxCap, j \in 0..MaxCap :
          /\ i <= j /\ j <= vec[v].size
          /\ Commit(erase_range(Start, v, i, j),
                    [Info("erase_range", v) EXCEPT !.i = i, !.j = j, !.n = j - i], 0)

\* fill(data_ + i, data_ + j, val) called on the storage of v past its
\* elements: raw storage, as fill requires (any storage will do for a
\* trivial T)
FillRange(v) ==
    /\ CanUse(v)
    /\ \E i \in 0..MaxCap, j \in 0..MaxCap, val \in Values :
          /\ vec[v].size <= i /\ i <= j /\ j <= vec[v].cap
          /\ trivial \/ \A k \in (i + 1)..j : ~heap[vec[v].data].slots[k].live
          /\ Commit(fill(Start, vec[v].data, i, j, val),
                    [Info("fill", v) EXCEPT !.i = i, !.j = j, !.val = val], 0)

\* destroy(data_ + i, data_ + j) called on objects made by fill in the
\* storage of v past its elements
DestroyRange(v) ==
    /\ CanUse(v)
    /\ \E i \in 0..MaxCap, j \in 0..MaxCap :
          /\ vec[v].size <= i /\ i <= j /\ j <= vec[v].cap
          /\ \A k \in (i + 1)..j : heap[vec[v].data].slots[k].live
          /\ Commit(destroy(Start, vec[v].data, i, j),
                    [Info("destroy", v) EXCEPT !.i = i, !.j = j], 0)

\* stl::swap(v[i], v[j]) on two elements of v
SwapElems(v) ==
    /\ CanUse(v)
    /\ \E i \in 0..MaxCap, j \in 0..MaxCap :
          /\ i < vec[v].size /\ j < vec[v].size
          /\ Commit(stl_swap(Start, vec[v].data, i, vec[v].data, j),
                    [Info("swap_elems", v) EXCEPT !.i = i, !.j = j], 0)

\* The operations that construct elements in bulk, called with a T whose
\* k + 1st copy or move constructor call of the operation throws.  The
\* exception leaves the operation, and the caller catches it.
Fueled(k) == [Start EXCEPT !.fuel = k]

FillCtorThrow(v) ==
    /\ CanBuild(v) /\ ~trivial
    /\ \E n \in 0..MaxCtor, val \in Values, k \in 0..MaxFuel, d \in Dests(v) :
          Commit(ctor_fill(Fueled(k), v, n, val, d),
                 [Info("ctor_fill", v) EXCEPT !.n = n, !.val = val, !.fuel = k], d)

CopyCtorThrow(v) ==
    /\ CanBuild(v) /\ ~trivial
    /\ \E w \in Vecs \ {v}, k \in 0..MaxFuel, d \in Dests(v) :
          /\ vec[w].alive
          /\ Commit(ctor_copy(Fueled(k), v, w, d),
                    [Info("ctor_copy", v) EXCEPT !.w = w, !.fuel = k], d)

AssignCopyThrow(v) ==
    /\ CanUse(v) /\ ~trivial
    /\ \E w \in Vecs \ {v}, k \in 0..MaxFuel, d \in Dests(v) :
          /\ vec[w].alive
          /\ Commit(assign_copy(Fueled(k), v, w, d),
                    [Info("assign_copy", v) EXCEPT !.w = w, !.fuel = k], d)

ReserveThrow(v) ==
    /\ CanUse(v) /\ ~trivial
    /\ \E n \in 0..MaxCap, k \in 0..MaxFuel, d \in Dests(v) :
          Commit(reserve(Fueled(k), v, n, d),
                 [Info("reserve", v) EXCEPT !.n = n, !.fuel = k], d)

ResizeThrow(v) ==
    /\ CanUse(v) /\ ~trivial
    /\ \E n \in 0..MaxCap, k \in 0..MaxFuel, d \in Dests(v) :
          Commit(resize(Fueled(k), v, n, d),
                 [Info("resize", v) EXCEPT !.n = n, !.fuel = k], d)

PushBackThrow(v) ==
    /\ CanUse(v) /\ ~trivial
    /\ \E val \in Values, how \in {"cp", "mv"}, k \in 0..MaxFuel, d \in Dests(v) :
          Commit(push_back(Fueled(k), v, val, how, d),
                 [Info("push_back", v) EXCEPT !.val = val, !.how = how, !.fuel = k], d)

\* ------------------------------------------------ memory.hpp: unique_ptr
\* A unique_ptr is its member ptr_.  An operation is computed on a state U:
\* the unique_ptr objects, the managed objects ("none": not allocated yet,
\* "live", "deleted"), the pointers release() has handed to the caller, and
\* a fault.
NoPtr == [alive |-> FALSE, ptr_ |-> 0]

UStart == [uptr |-> uptr, objs |-> objs, held |-> held, fault |-> "none"]

\* delete o
Delete(U, o) ==
    IF U.fault # "none" \/ o = 0 THEN U
    ELSE IF U.objs[o] # "live" THEN [U EXCEPT !.fault = "double_delete"]
    ELSE [U EXCEPT !.objs[o] = "deleted"]

\* unique_ptr(T *ptr = nullptr), ptr null or the result of a new-expression
up_ctor(U, p, o) ==
    [U EXCEPT !.uptr[p] = [alive |-> TRUE, ptr_ |-> o],
              !.objs = [x \in Objs |-> IF x = o THEN "live" ELSE @[x]]]

\* unique_ptr(unique_ptr &&other)
up_move_ctor(U, p, q) ==
    LET U1 == [U EXCEPT !.uptr[p] = [alive |-> TRUE, ptr_ |-> U.uptr[q].ptr_]]
    IN  [U1 EXCEPT !.uptr[q].ptr_ = 0]

\* operator=(unique_ptr &&other): delete ptr_; ptr_ = other.ptr_;
\* other.ptr_ = nullptr; and the function ends with no return statement.
\* Flowing off the end of a function returning unique_ptr& is undefined:
\* the call returns to its caller (out = "returns") or control runs on past
\* the end of the function (out = "undefined").
up_move_assign(U, p, q, out) ==
    LET U1 == Delete(U, U.uptr[p].ptr_)
        U2 == [U1 EXCEPT !.uptr[p].ptr_ = U1.uptr[q].ptr_]
        U3 == [U2 EXCEPT !.uptr[q].ptr_ = 0]
    IN  IF out = "returns" \/ U3.fault # "none" THEN U3
        ELSE [U3 EXCEPT !.fault = "no_return"]

\* release(): T *temp = ptr_; ptr_ = nullptr; return temp
up_release(U, p) ==
    [U EXCEPT !.held = @ \cup ({U.uptr[p].ptr_} \ {0}), !.uptr[p].ptr_ = 0]

\* ~unique_ptr(): delete ptr_
up_dtor(U, p) ==
    [Delete(U, U.uptr[p].ptr_) EXCEPT !.uptr[p] = NoPtr]

\* the address a new-expression returns: the lowest one not used yet
Fresh == Lowest({o \in Objs : objs[o] = "none"})

\* The operation computed as U becomes the next state; a faulted operation
\* leaves the state as it was, with fault set.
UCommit(U, op, p, q) ==
    /\ uptr' = IF U.fault = "none" THEN U.uptr ELSE uptr
    /\ objs' = IF U.fault = "none" THEN U.objs ELSE objs
    /\ held' = IF U.fault = "none" THEN U.held ELSE held
    /\ fault' = U.fault
    /\ ulast' = [op |-> op, p |-> p, q |-> q]
    /\ UNCHANGED <<trivial, vec, heap, pre, last, resv, run, nops, moved, past>>

UpCtor(p) ==
    /\ fault = "none" /\ ~uptr[p].alive
    /\ \E o \in {0} \cup Fresh : UCommit(up_ctor(UStart, p, o), "ctor", p, "")

UpMoveCtor(p) ==
    /\ fault = "none" /\ ~uptr[p].alive
    /\ \E q \in Ptrs \ {p} :
          /\ uptr[q].alive
          /\ UCommit(up_move_ctor(UStart, p, q), "move_ctor", p, q)

UpMoveAssign(p) ==
    /\ fault = "none" /\ uptr[p].alive
    /\ \E q \in Ptrs, out \in {"returns", "undefined"} :
          /\ uptr[q].alive
          /\ UCommit(up_move_assign(UStart, p, q, out), "move_assign", p, q)

UpRelease(p) ==
    /\ fault = "none" /\ uptr[p].alive
    /\ UCommit(up_release(UStart, p), "release", p, "")

UpDtor(p) ==
    /\ fault = "none" /\ uptr[p].alive
    /\ UCommit(up_dtor(UStart, p), "dtor", p, "")

Init ==
    /\ trivial \in BOOLEAN
    /\ vec = [v \in Vecs |-> NoVec]
    /\ heap = [p \in Addrs |-> NoBlock]
    /\ pre = [vec |-> vec, heap |-> heap]
    /\ last = Info("init", "")
    /\ fault = "none"
    /\ resv = NoResv
    /\ run = NoRun
    /\ moved = {}
    /\ past = {}
    /\ nops = 0
    /\ uptr = [p \in Ptrs |-> NoPtr]
    /\ objs = [o \in Objs |-> "none"]
    /\ held = {}
    /\ ulast = [op |-> "init", p |-> "", q |-> ""]

Next ==
    \E v \in Vecs :
        \/ DefaultCtor(v) \/ CapCtor(v) \/ FillCtor(v) \/ CopyCtor(v) \/ MoveCtor(v)
        \/ ListCtor(v) \/ Dtor(v) \/ AssignCopy(v) \/ AssignMove(v)
        \/ Reserve(v) \/ Resize(v) \/ At(v) \/ SetElem(v)
        \/ PushBack(v) \/ PopBack(v) \/ Clear(v) \/ Swap(v)
        \/ Equal(v) \/ NotEqual(v)
        \/ Insert(v) \/ Erase(v) \/ EraseRange(v)
        \/ FillRange(v) \/ DestroyRange(v) \/ SwapElems(v)
        \/ FillCtorThrow(v) \/ CopyCtorThrow(v) \/ AssignCopyThrow(v)
        \/ ReserveThrow(v) \/ ResizeThrow(v) \/ PushBackThrow(v)
    \/ \E p \in Ptrs :
        \/ UpCtor(p) \/ UpMoveCtor(p) \/ UpMoveAssign(p) \/ UpRelease(p) \/ UpDtor(p)

Spec == Init /\ [][Next]_vars

\* one vector: construction, growth and shrinking
NextGrow ==
    \/ DefaultCtor("a") \/ CapCtor("a") \/ FillCtor("a") \/ ListCtor("a")
    \/ Reserve("a") \/ Resize("a") \/ PushBack("a") \/ PopBack("a") \/ Clear("a")
    \/ At("a")

SpecGrow == Init /\ [][NextGrow]_vars

\* one vector: construction and edits in the middle
NextEdit ==
    \/ DefaultCtor("a") \/ CapCtor("a") \/ FillCtor("a") \/ ListCtor("a")
    \/ Reserve("a") \/ PopBack("a") \/ SetElem("a")
    \/ Insert("a") \/ Erase("a") \/ EraseRange("a")

SpecEdit == Init /\ [][NextEdit]_vars

\* two vectors: copies, moves, swap and destruction, with "a" mutated
NextTwo ==
    \/ \E v \in Vecs :
          \/ DefaultCtor(v) \/ ListCtor(v) \/ CopyCtor(v) \/ MoveCtor(v) \/ Dtor(v)
          \/ AssignCopy(v) \/ AssignMove(v) \/ Swap(v)
    \/ SetElem("a") \/ PushBack("a") \/ PopBack("a") \/ Clear("a") \/ At("a")

SpecTwo == Init /\ [][NextTwo]_vars

\* two vectors built and edited, and compared
NextCmp ==
    \/ \E v \in Vecs :
          \/ DefaultCtor(v) \/ ListCtor(v) \/ FillCtor(v) \/ Equal(v) \/ NotEqual(v)
    \/ Reserve("a") \/ SetElem("a") \/ PushBack("a") \/ PopBack("a")

SpecCmp == Init /\ [][NextCmp]_vars

\* one vector: default construction, pushes and pops
NextRun == DefaultCtor("a") \/ PushBack("a") \/ PopBack("a")

SpecRun == Init /\ [][NextRun]_vars

\* one vector's storage: fill and destroy called on the slots past its
\* elements
NextMem ==
    \/ CapCtor("a") \/ ListCtor("a") \/ Reserve("a")
    \/ FillRange("a") \/ DestroyRange("a")

SpecMem == Init /\ [][NextMem]_vars

\* one vector whose elements are exchanged by the swap of utility.hpp
NextUtil ==
    \/ ListCtor("a") \/ FillCtor("a") \/ SetElem("a") \/ PushBack("a")
    \/ SwapElems("a")

SpecUtil == Init /\ [][NextUtil]_vars

\* two vectors from construction to destruction: "a" is built and edited,
\* "b" is built empty or from "a"
NextLife ==
    \/ FillCtor("a") \/ ListCtor("a") \/ PushBack("a") \/ Insert("a") \/ Erase("a")
    \/ DefaultCtor("b") \/ MoveCtor("b") \/ Swap("a")
    \/ \E v \in Vecs : Dtor(v)

SpecLife == Init /\ [][NextLife]_vars

\* two vectors of a T whose copy and move constructors may throw
NextThrow ==
    \/ ListCtor("a") \/ FillCtorThrow("a")
    \/ ReserveThrow("a") \/ ResizeThrow("a") \/ PushBackThrow("a")
    \/ CopyCtorThrow("b") \/ AssignCopyThrow("b")
    \/ \E v \in Vecs : Dtor(v)

SpecThrow == Init /\ [][NextThrow]_vars

\* two unique_ptr objects
NextPtr ==
    \E p \in Ptrs :
        \/ UpCtor(p) \/ UpMoveCtor(p) \/ UpMoveAssign(p) \/ UpRelease(p) \/ UpDtor(p)

SpecPtr == Init /\ [][NextPtr]_vars

\* one vector built, grown, and shrunk from the back and from the middle
NextKeep ==
    \/ CapCtor("a") \/ ListCtor("a") \/ PushBack("a")
    \/ Reserve("a") \/ Resize("a")
    \/ PopBack("a") \/ Clear("a") \/ Erase("a") \/ EraseRange("a")

SpecKeep == Init /\ [][NextKeep]_vars

\* ------------------------------------------------ reading states
\* the state now
Cur == [vec |-> vec, heap |-> heap]

\* v's block in state st can be read over [0, size)
Holds(st, v) ==
    LET V == st.vec[v]
    IN  \/ V.size = 0
        \/ /\ V.data # 0
           /\ st.heap[V.data].alloc
           /\ V.size <= Len(st.heap[V.data].slots)

\* the values of v's elements, in order
Elems(st, v) ==
    IF Holds(st, v)
    THEN [i \in 1..st.vec[v].size |-> st.heap[st.vec[v].data].slots[i].val]
    ELSE <<>>

\* every slot of [0, size) holds a live object
AllLive(st, v) ==
    /\ Holds(st, v)
    /\ \A i \in 1..st.vec[v].size : st.heap[st.vec[v].data].slots[i].live

\* the class invariant of vector v in state st: it is alive, size <= capacity,
\* it has no block and capacity 0 or a block of capacity slots that no other
\* vector points to, and [0, size) is live
WellFormed(st, v) ==
    LET V == st.vec[v]
    IN  /\ V.alive
        /\ V.size <= V.cap
        /\ IF V.data = 0 THEN V.cap = 0
           ELSE /\ st.heap[V.data].alloc
                /\ Len(st.heap[V.data].slots) = V.cap
                /\ \A w \in Vecs \ {v} : st.vec[w].data # V.data
        /\ AllLive(st, v)

\* ------------------------------------------------ the claims
\* C1: after every push_back on a vector reached by construction and
\* growth, the length is one more, the new last element is the pushed value,
\* every element that was there keeps its value and index, and
\* capacity >= length.
C1_PushBackAppends ==
    last.op = "push_back" =>
        LET v == last.v
            L == pre.vec[v].size
        IN  /\ fault = "none"
            /\ vec[v].size = L + 1
            /\ AllLive(Cur, v)
            /\ Elems(Cur, v)[L + 1] = last.val
            /\ SubSeq(Elems(Cur, v), 1, L) = Elems(pre, v)
            /\ vec[v].cap >= vec[v].size

\* a push_back that had to reallocate a block of two live Tracked elements
C1_Witness ==
    /\ last.op = "push_back"
    /\ ~trivial
    /\ pre.vec[last.v].size = 2
    /\ pre.vec[last.v].cap = 2
    /\ fault = "none"
    /\ Elems(pre, last.v) = <<1, 2>>

\* C2: a move-construction or move-assignment from other gives the
\* destination other's storage address, length and elements, and leaves other
\* default-empty: length 0, capacity 0, data() null.
C2_MoveEmptiesSource ==
    last.op \in {"ctor_move", "assign_move"} =>
        LET v == last.v
            w == last.w
        IN  /\ fault = "none"
            /\ vec[v].data = pre.vec[w].data
            /\ vec[v].size = pre.vec[w].size
            /\ Elems(Cur, v) = Elems(pre, w)
            /\ vec[w].size = 0
            /\ vec[w].cap = 0
            /\ vec[w].data = 0

\* C3: after a.swap(b), a has the length, capacity, block and elements b
\* had, and b has those a had.
C3_SwapExchanges ==
    last.op = "swap" =>
        LET v == last.v
            w == last.w
        IN  /\ fault = "none"
            /\ vec[v] = pre.vec[w]
            /\ vec[w] = pre.vec[v]
            /\ Elems(Cur, v) = Elems(pre, w)
            /\ Elems(Cur, w) = Elems(pre, v)

\* the operations that mutate the vector they are called on, as C4 lists them
Mutators == {"set_elem", "push_back", "pop_back", "clear", "dtor"}

\* C4: a copy-construction or copy-assignment from a well-formed source
\* gives length and elements equal to the source's in a block of its own and
\* leaves the source as it was; and a mutation of one vector (element write,
\* push_back, pop_back, clear, destruction) leaves the length, the block and
\* the elements of every other vector that owns its block unchanged.
C4_CopyIsIndependent ==
    /\ (last.op \in {"ctor_copy", "assign_copy"} /\ last.v # last.w
            /\ WellFormed(pre, last.w)
            /\ (last.op = "assign_copy" => WellFormed(pre, last.v))) =>
          LET v == last.v
              w == last.w
          IN  /\ fault = "none"
              /\ vec[v].size = vec[w].size
              /\ AllLive(Cur, v)
              /\ Elems(Cur, v) = Elems(Cur, w)
              /\ vec[v].data # vec[w].data \/ vec[v].data = 0
              /\ WellFormed(Cur, v)
              /\ vec[w] = pre.vec[w]
              /\ Elems(Cur, w) = Elems(pre, w)
    /\ last.op \in Mutators =>
          \A w \in Vecs \ {last.v} :
              WellFormed(pre, w) =>
                  /\ vec[w] = pre.vec[w]
                  /\ Elems(Cur, w) = Elems(pre, w)
                  /\ WellFormed(Cur, w)

\* an element of a written while b holds the same two elements in its own
\* block: the vectors differ afterwards
C4_Witness ==
    /\ last.op = "set_elem"
    /\ last.v = "a"
    /\ fault = "none"
    /\ WellFormed(pre, "a") /\ WellFormed(pre, "b")
    /\ pre.vec["a"].size = 2
    /\ Elems(pre, "a") = Elems(pre, "b")
    /\ pre.vec["a"].data # pre.vec["b"].data
    /\ Elems(Cur, "b") = Elems(pre, "b")
    /\ Elems(Cur, "a") # Elems(Cur, "b")

\* s with n copies of val put before index k (counted from 0)
Inserted(s, k, val, n) ==
    SubSeq(s, 1, k) \o [x \in 1..n |-> val] \o SubSeq(s, k + 1, Len(s))

\* s without the n elements from index i (counted from 0) on
Removed(s, i, n) == SubSeq(s, 1, i) \o SubSeq(s, i + n + 1, Len(s))

\* C5: insert(begin() + k, value, n) on a vector holding s leaves it holding
\* s[0..k), n copies of value, s[k..L), with length L + n, and returns a
\* pointer to index k of the block.
C5_InsertPutsCopiesAtPos ==
    (last.op = "insert" /\ WellFormed(pre, last.v)) =>
        LET v == last.v
            L == pre.vec[v].size
        IN  /\ fault = "none"
            /\ vec[v].size = L + last.n
            /\ Holds(Cur, v)
            /\ Elems(Cur, v) = Inserted(Elems(pre, v), last.i, last.val, last.n)
            /\ last.ret = [p |-> vec[v].data, i |-> last.i]

\* C6: erase(pos) and erase(first, last) on a vector holding s leave it
\* holding s without the erased indices, survivors in order, the length
\* reduced by the number erased, and that many elements destroyed net.
C6_EraseRemovesRange ==
    (last.op \in {"erase", "erase_range"} /\ WellFormed(pre, last.v)) =>
        LET v == last.v
            L == pre.vec[v].size
        IN  /\ fault = "none"
            /\ vec[v].size = L - last.n
            /\ AllLive(Cur, v)
            /\ Elems(Cur, v) = Removed(Elems(pre, v), last.i, last.n)
            /\ ~trivial => last.ev.des - last.ev.cons = last.n

\* the smaller of two numbers
Min(x, y) == IF x < y THEN x ELSE y

\* C7: resize(n) ends with length n and the first min(L, n) elements
\* unchanged; for n > L the slots [L, n) hold default-constructed values; for
\* n < L exactly the trailing L - n elements are destroyed; for n > capacity
\* a reallocation to capacity n happens.
C7_Resize ==
    last.op = "resize" =>
        LET v == last.v
            n == last.n
            P == pre.vec[v]
            L == P.size
            m == Min(L, n)
        IN  /\ fault = "none"
            /\ vec[v].size = n
            /\ AllLive(Cur, v)
            /\ SubSeq(Elems(Cur, v), 1, m) = SubSeq(Elems(pre, v), 1, m)
            /\ \A i \in (L + 1)..n : Elems(Cur, v)[i] = DefaultVal
            /\ (n < L /\ ~trivial) =>
                  /\ last.ev.des = L - n
                  /\ \A i \in (n + 1)..L : ~heap[vec[v].data].slots[i].live
            /\ IF n > P.cap
               THEN /\ last.ev.allocs = 1
                    /\ vec[v].cap = n
                    /\ vec[v].data # P.data
                    /\ Len(heap[vec[v].data].slots) = n
               ELSE /\ last.ev.allocs = 0
                    /\ vec[v].cap = P.cap
                    /\ vec[v].data = P.data

\* a resize that had to reallocate and default-fill, and one that destroyed
\* a tail, both on Tracked elements
C7_Witness ==
    /\ last.op = "resize"
    /\ ~trivial
    /\ fault = "none"
    /\ \/ pre.vec[last.v].size = 2 /\ pre.vec[last.v].cap = 2 /\ last.n = 4
       \/ pre.vec[last.v].size = 3 /\ last.n = 1

\* C8: reserve(n) with n > capacity sets the capacity to exactly n and keeps
\* the length and every live element, in order, in the new block.
C8_ReserveGrows ==
    (last.op = "reserve" /\ last.n > pre.vec[last.v].cap) =>
        LET v == last.v
        IN  /\ fault = "none"
            /\ vec[v].cap = last.n
            /\ vec[v].size = pre.vec[v].size
            /\ AllLive(Cur, v)
            /\ Elems(Cur, v) = Elems(pre, v)
            /\ vec[v].data # 0
            /\ vec[v].data # pre.vec[v].data
            /\ Len(heap[vec[v].data].slots) = last.n

\* a reserve that moved three live Tracked elements to a larger block
C8_Witness ==
    /\ last.op = "reserve"
    /\ ~trivial
    /\ fault = "none"
    /\ pre.vec[last.v].size = 3
    /\ pre.vec[last.v].cap = 3
    /\ last.n = 4

\* C9: after reserve(n) on an empty vector, the next n push_back calls do
\* not reallocate: data() and the capacity stay what they were right after
\* reserve.
C9_ReserveThenPushes ==
    (resv.on /\ resv.pushes <= resv.n) =>
        /\ fault = "none"
        /\ vec[resv.v].data = resv.data
        /\ vec[resv.v].cap = resv.cap
        /\ vec[resv.v].size = resv.pushes
        /\ last.op = "push_back" => last.ev.allocs = 0 /\ last.ev.frees = 0

\* reserve(2) on an empty vector with no capacity, then two pushes
C9_Witness ==
    /\ resv.on
    /\ resv.n = 2
    /\ resv.cap = 2
    /\ resv.pushes = 2
    /\ last.op = "push_back"

\* C10: at(i) throws for every i >= length in every state of the vector, the
\* empty one included, and changes nothing; for i < length of a well-formed
\* vector it returns element i.
C10_At ==
    last.op = "at" =>
        LET v == last.v
            i == last.i
            P == pre.vec[v]
        IN  /\ i >= P.size =>
                /\ last.threw
                /\ fault = "none"
                /\ vec = pre.vec
                /\ heap = pre.heap
            /\ (i < P.size /\ WellFormed(pre, v)) =>
                /\ ~last.threw
                /\ fault = "none"
                /\ last.ret = [p |-> P.data, i |-> i]
                /\ last.rval = Elems(pre, v)[i + 1]
                /\ vec = pre.vec
                /\ heap = pre.heap

\* at(size) threw on a vector of two elements, or at(0) on an empty one
C10_Witness ==
    /\ last.op = "at"
    /\ last.threw
    /\ vec[last.v].alive
    /\ \/ vec[last.v].size = 2 /\ last.i = 2
       \/ vec[last.v].size = 0 /\ vec[last.v].data = 0 /\ last.i = 0

\* the slots [i, j) (counted from 0) of v's block hold no object
NoneLive(st, v, i, j) ==
    \A k \in (i + 1)..j : ~st.heap[st.vec[v].data].slots[k].live

\* C11: clear() on a vector of length L destroys exactly its L live
\* elements (L destructor calls, no constructor call, the slots [0, L) hold
\* no object afterwards), sets the length to 0 and leaves the capacity and
\* the block unchanged.
C11_ClearDestroysAll ==
    last.op = "clear" =>
        LET v == last.v
            P == pre.vec[v]
        IN  /\ fault = "none"
            /\ last.viol = {}
            /\ vec[v].size = 0
            /\ vec[v].cap = P.cap
            /\ vec[v].data = P.data
            /\ last.ev.allocs = 0 /\ last.ev.frees = 0
            /\ ~trivial =>
                  /\ last.ev.des = P.size
                  /\ last.ev.cons = 0
                  /\ NoneLive(Cur, v, 0, P.size)

\* clear() on three live Tracked elements
C11_Witness ==
    /\ last.op = "clear"
    /\ ~trivial
    /\ fault = "none"
    /\ pre.vec[last.v].size = 3
    /\ AllLive(pre, last.v)

\* C12: pop_back() on a vector of length L > 0 destroys exactly the element
\* at index L - 1 (one destructor call for Tracked), sets the length to
\* L - 1 and leaves the elements [0, L - 1), the capacity and the block
\* unchanged.
C12_PopBackDestroysLast ==
    (last.op = "pop_back" /\ pre.vec[last.v].size > 0) =>
        LET v == last.v
            P == pre.vec[v]
        IN  /\ fault = "none"
            /\ last.viol = {}
            /\ vec[v].size = P.size - 1
            /\ vec[v].cap = P.cap
            /\ vec[v].data = P.data
            /\ AllLive(Cur, v)
            /\ Elems(Cur, v) = SubSeq(Elems(pre, v), 1, P.size - 1)
            /\ ~trivial =>
                  /\ last.ev.des = 1
                  /\ last.ev.cons = 0
                  /\ NoneLive(Cur, v, P.size - 1, P.size)

\* pop_back() on two live Tracked elements
C12_Witness ==
    /\ last.op = "pop_back"
    /\ ~trivial
    /\ fault = "none"
    /\ pre.vec[last.v].size = 2
    /\ AllLive(pre, last.v)
    /\ vec[last.v].size = 1

\* C13: from a default-constructed vector, after N pushes the length is N
\* and element i is the i-th pushed value; after N pop_back calls more the
\* vector is empty and, for Tracked, the constructor calls made on elements
\* since the construction (value, copy and move alike) are as many as the
\* destructor calls, and no slot of any block holds an object.
C13_PushPopBalanced ==
    /\ fault = "none"
    /\ run.on =>
          LET v == run.v
              N == Len(run.pushed)
          IN  /\ run.pops = 0 =>
                    /\ vec[v].size = N
                    /\ AllLive(Cur, v)
                    /\ Elems(Cur, v) = run.pushed
              /\ vec[v].size = N - run.pops
              /\ run.pops = N =>
                    /\ vec[v].size = 0
                    /\ ~trivial =>
                          /\ run.cons = run.des
                          /\ \A p \in Addrs : \A k \in 1..Len(heap[p].slots) :
                                ~heap[p].slots[k].live

\* three Tracked values pushed (a reallocation in between) and popped again
C13_Witness ==
    /\ run.on
    /\ ~trivial
    /\ Len(run.pushed) = 3
    /\ run.pops = 3
    /\ run.cons = 5
    /\ vec[run.v].cap = 4

\* C20: over N push_back calls on a default-constructed vector the elements
\* carried into a new block by the reallocations are at most 2 * N in total.
C20_PushesAreAmortized ==
    (run.on /\ run.pops = 0) => run.xfer <= 2 * Len(run.pushed)

\* five pushes: the reallocations at lengths 2 and 4 carried six elements
C20_Witness ==
    /\ run.on
    /\ run.pops = 0
    /\ Len(run.pushed) = 5
    /\ run.xfer = 6
    /\ vec[run.v].cap = 8

\* C14: a push_back called with length = capacity = c leaves the capacity
\* max(2 * c, 2); an insert of n elements called with length + n > capacity
\* c leaves the capacity exactly max(2 * c, length + n).
C14_GrowthPolicy ==
    /\ (last.op = "push_back" /\ WellFormed(pre, last.v)
            /\ pre.vec[last.v].size = pre.vec[last.v].cap) =>
          LET c == pre.vec[last.v].cap
          IN  /\ fault = "none"
              /\ vec[last.v].cap = IF 2 * c > 2 THEN 2 * c ELSE 2
    /\ (last.op = "insert" /\ WellFormed(pre, last.v)
            /\ pre.vec[last.v].size + last.n > pre.vec[last.v].cap) =>
          LET c == pre.vec[last.v].cap
              need == pre.vec[last.v].size + last.n
          IN  /\ fault = "none"
              /\ vec[last.v].cap = IF 2 * c > need THEN 2 * c ELSE need

\* exactly the slots [0, size) of v's block hold an object: the slots below
\* size are live and, for a T with a destructor, the slots from size on are
\* raw storage
LiveExactly(st, v) ==
    LET V == st.vec[v]
    IN  IF V.data = 0 THEN V.size = 0
        ELSE /\ st.heap[V.data].alloc
             /\ V.size <= Len(st.heap[V.data].slots)
             /\ \A k \in 1..Len(st.heap[V.data].slots) :
                   /\ k <= V.size => st.heap[V.data].slots[k].live
                   /\ (k > V.size /\ ~trivial) => ~st.heap[V.data].slots[k].live

\* C15: after every public operation called on well-formed vectors with
\* arguments in its precondition, exactly the slots [0, length) of each
\* vector's block are live and the slots [length, capacity) are
\* uninitialized.
C15_LiveRange ==
    (last.op # "init" /\ \A v \in Vecs : pre.vec[v].alive => WellFormed(pre, v)) =>
        /\ fault = "none"
        /\ \A v \in Vecs : vec[v].alive => LiveExactly(Cur, v)

\* C16: in every reachable state, data() of every vector is null if and
\* only if its capacity is 0.
C16_NullIffNoCapacity ==
    \A v \in Vecs : vec[v].alive => ((vec[v].data = 0) <=> (vec[v].cap = 0))

\* C17: at every point, every allocated block is owned by exactly one
\* vector: no two live vectors hold the same non-null data pointer, no live
\* vector holds a pointer to a freed block, and no allocated block is
\* without a vector.
C17_SingleOwner ==
    /\ \A v \in Vecs, w \in Vecs :
          (v # w /\ vec[v].alive /\ vec[w].alive /\ vec[v].data = vec[w].data) =>
              vec[v].data = 0
    /\ \A v \in Vecs : (vec[v].alive /\ vec[v].data # 0) => heap[vec[v].data].alloc
    /\ \A p \in Addrs : heap[p].alloc => \E v \in Vecs : vec[v].alive /\ vec[v].data = p

\* C18: copy-assigning a vector to itself changes nothing: the data pointer,
\* the length, the capacity and every element are as before, no element is
\* constructed, destroyed, copied or moved and no block is allocated or
\* freed.
C18_SelfAssignIsNoOp ==
    (last.op = "assign_copy" /\ last.w = last.v) =>
        /\ fault = "none"
        /\ last.viol = {}
        /\ vec = pre.vec
        /\ heap = pre.heap
        /\ last.ev = NoEv

\* a vector of two Tracked elements assigned to itself
C18_Witness ==
    /\ last.op = "assign_copy"
    /\ last.w = last.v
    /\ ~trivial
    /\ fault = "none"
    /\ vec[last.v].size = 2
    /\ AllLive(Cur, last.v)

\* C19: a == b is true exactly when a and b have the same length and equal
\* elements at every index, whatever their capacities and blocks, and
\* a != b is true exactly when a == b is false; neither changes a or b.
C19_Equality ==
    (last.op \in {"eq", "ne"} /\ WellFormed(pre, last.v) /\ WellFormed(pre, last.w)) =>
        LET same == Elems(pre, last.v) = Elems(pre, last.w)
        IN  /\ fault = "none"
            /\ vec = pre.vec
            /\ heap = pre.heap
            /\ last.op = "eq" => last.rval = (IF same THEN 1 ELSE 0)
            /\ last.op = "ne" => last.rval = (IF same THEN 0 ELSE 1)

\* C22: vector(n, value) has capacity n, length n and every element equal
\* to value, for every n >= 0, for int and for Tracked.
C22_FillConstruction ==
    last.op = "ctor_fill" =>
        LET v == last.v
        IN  /\ fault = "none"
            /\ last.viol = {}
            /\ vec[v].alive
            /\ vec[v].cap = last.n
            /\ vec[v].size = last.n
            /\ AllLive(Cur, v)
            /\ Elems(Cur, v) = [i \in 1..last.n |-> last.val]
            /\ last.n > 0 => Len(heap[vec[v].data].slots) = last.n

\* vector(2, value) of Tracked
C22_Witness ==
    /\ last.op = "ctor_fill"
    /\ ~trivial
    /\ last.n = 2
    /\ fault = "none"
    /\ Elems(Cur, last.v) = <<last.val, last.val>>

\* C23: for Tracked, a push_back of a temporary copy-constructs and
\* copy-assigns nothing: the pushed value is move-constructed into its slot,
\* and a reallocation carries each live element by exactly one
\* move-construction into the new block and destroys the old element once.
C23_PushBackMoves ==
    (last.op = "push_back" /\ last.how = "mv" /\ ~trivial) =>
        LET L == pre.vec[last.v].size
            grew == pre.vec[last.v].size = pre.vec[last.v].cap
            carried == IF grew THEN L ELSE 0
        IN  /\ fault = "none"
            /\ last.viol = {}
            /\ last.ev.cp = 0
            /\ last.ev.xfer = carried
            /\ last.ev.mv = carried + 1
            /\ last.ev.cons = carried + 1
            /\ last.ev.des = carried
            /\ grew => /\ Elems(Cur, last.v) = Append(Elems(pre, last.v), last.val)
                       /\ ~pre.heap[vec[last.v].data].alloc \/ vec[last.v].data # pre.vec[last.v].data
                       /\ L > 0 => ~heap[pre.vec[last.v].data].alloc

\* the push of a temporary that moved four Tracked elements to a new block
C23_Witness ==
    /\ last.op = "push_back"
    /\ last.how = "mv"
    /\ ~trivial
    /\ fault = "none"
    /\ pre.vec[last.v].size = 4
    /\ pre.vec[last.v].cap = 4
    /\ last.ev.mv = 5

\* C24: during every operation called on well-formed vectors with arguments
\* in its precondition, no slot is read, assigned to or moved from while
\* uninitialized, no constructor runs on a live slot, no destructor runs on
\* an uninitialized slot, and no slot outside the block is accessed.
C24_SlotLifecycle ==
    (last.op # "init" /\ \A v \in Vecs : pre.vec[v].alive => WellFormed(pre, v)) =>
        /\ last.viol = {}
        /\ fault = "none"

\* C25: insert returns for every well-formed vector and every n >= 1, and
\* insert(begin(), value, n) on an empty vector, with or without capacity,
\* leaves exactly n copies of value.
C25_InsertTerminates ==
    (last.op = "insert" /\ WellFormed(pre, last.v)) =>
        /\ fault = "none"
        /\ pre.vec[last.v].size = 0 =>
              /\ vec[last.v].size = last.n
              /\ Elems(Cur, last.v) = [i \in 1..last.n |-> last.val]

\* C26: destroying a vector that was moved from, by move construction or
\* move assignment, and not written to since, does nothing: no block is
\* freed, no destructor of an element runs, the heap is as it was, and every
\* other vector keeps its pointer, length and capacity.
C26_MovedFromDtorIsNoOp ==
    (last.op = "dtor" /\ last.moved) =>
        /\ fault = "none"
        /\ last.ev.frees = 0
        /\ last.ev.des = 0
        /\ last.viol = {}
        /\ heap = pre.heap
        /\ \A w \in Vecs \ {last.v} : vec[w] = pre.vec[w]

\* the source of a move of two elements of Tracked is destroyed, and the
\* destination still owns the block with both elements alive
C26_Witness ==
    /\ last.op = "dtor" /\ last.moved /\ fault = "none"
    /\ ~trivial
    /\ pre.vec[last.v].size = 2
    /\ \E w \in Vecs \ {last.v} :
          /\ vec[w].alive /\ vec[w].size = 2 /\ vec[w].data # 0
          /\ heap[vec[w].data].alloc
          /\ AllLive(Cur, w)

\* C27: fill(begin, end, value) on raw storage does the same on its two
\* paths, the slot-by-slot assignment for a trivially copyable T and
\* construct_at for any other T: every slot of [begin, end) holds a live
\* object equal to value, every slot outside the range and every other block
\* is as it was, the vector's fields are as they were, and for an empty range
\* nothing happens at all.
C27_FillPaths ==
    last.op = "fill" =>
        LET p == vec[last.v].data
        IN  /\ fault = "none"
            /\ last.viol = {}
            /\ vec = pre.vec
            /\ \A q \in Addrs \ {p} : heap[q] = pre.heap[q]
            /\ last.i = last.j => heap = pre.heap /\ last.ev = NoEv
            /\ p # 0 =>
                  /\ heap[p].alloc
                  /\ Len(heap[p].slots) = Len(pre.heap[p].slots)
                  /\ \A k \in 1..Len(heap[p].slots) :
                        IF last.i < k /\ k <= last.j
                        THEN heap[p].slots[k] = Slot(TRUE, last.val)
                        ELSE heap[p].slots[k] = pre.heap[p].slots[k]
            /\ last.ev.cons = (IF trivial THEN 0 ELSE last.j - last.i)

\* the correctness path fills two slots in the middle of a block of four
\* raw slots
C27_Witness ==
    /\ last.op = "fill" /\ fault = "none"
    /\ ~trivial
    /\ last.i = 1 /\ last.j = 3
    /\ vec[last.v].cap = 4 /\ vec[last.v].size = 0
    /\ heap[vec[last.v].data].slots =
          <<RawSlot, Slot(TRUE, last.val), Slot(TRUE, last.val), RawSlot>>

\* C28: after swap(a, b) on two elements, a holds the value b had and b the
\* value a had, every other element is as it was, the exchange took three
\* moves and no copy (one move construction of the temporary, two move
\* assignments, and the temporary's destruction), and a second swap(a, b)
\* gives back the state before the first.
C28_SwapIsThreeMoves ==
    last.op = "swap_elems" =>
        LET p == vec[last.v].data
            a == last.i + 1
            b == last.j + 1
        IN  /\ fault = "none"
            /\ last.viol = {}
            /\ vec = pre.vec
            /\ \A q \in Addrs \ {p} : heap[q] = pre.heap[q]
            /\ heap[p].slots[a] = pre.heap[p].slots[b]
            /\ heap[p].slots[b] = pre.heap[p].slots[a]
            /\ \A k \in 1..Len(heap[p].slots) :
                  k \in {a, b} \/ heap[p].slots[k] = pre.heap[p].slots[k]
            /\ ~trivial =>
                  /\ last.ev.mv = 3 /\ last.ev.cp = 0
                  /\ last.ev.cons = 1 /\ last.ev.des = 1
            /\ stl_swap(Start, p, last.i, p, last.j).heap = pre.heap

\* two elements of Tracked with different values have been exchanged
C28_Witness ==
    /\ last.op = "swap_elems" /\ fault = "none"
    /\ ~trivial
    /\ last.i # last.j
    /\ Elems(pre, last.v) = <<1, 2, 3>>
    /\ Elems(Cur, last.v) \in {<<2, 1, 3>>, <<3, 2, 1>>, <<1, 3, 2>>}

\* C30: no destructor of a vector frees a block twice or touches a freed
\* block, and once every vector has been destroyed no block is left
\* allocated, no block was freed with live elements in it, no constructor ran
\* over a live element, and no destructor ran on a slot that held no element.
C30_AllReleased ==
    /\ last.op = "dtor" => fault = "none"
    /\ (nops > 0 /\ fault = "none" /\ \A v \in Vecs : ~vec[v].alive) =>
          /\ \A p \in Addrs : ~heap[p].alloc
          /\ past = {}

\* every live object in the heap is an element of a vector: it lies in
\* [0, size) of the block of a vector that is alive
NoLostElement(st) ==
    \A p \in Addrs : \A k \in 1..Len(st.heap[p].slots) :
        st.heap[p].slots[k].live =>
            \E v \in Vecs : /\ st.vec[v].alive /\ st.vec[v].data = p
                            /\ k <= st.vec[v].size

\* C21: when a copy or move constructor of an element throws in the middle
\* of a fill, a range copy or a reallocation on well-formed vectors, the
\* elements the operation had constructed are not left alive outside every
\* vector, the operation ran no destructor on a slot without an object, the
\* vector copied from is untouched, and the elements the vector had and has
\* kept in its block are still alive.
C21_FailureCleansUp ==
    (/\ last.threw /\ last.op # "at"
     /\ \A v \in Vecs : pre.vec[v].alive => WellFormed(pre, v)
     /\ NoLostElement(pre)) =>
        /\ fault = "none"
        /\ "destroy_uninitialized" \notin last.viol
        /\ NoLostElement(Cur)
        /\ last.w # "" => vec[last.w] = pre.vec[last.w] /\ AllLive(Cur, last.w)
        /\ (last.w = "" /\ vec[last.v].alive /\ vec[last.v].data = pre.vec[last.v].data) =>
              \A k \in 1..pre.vec[last.v].size : heap[vec[last.v].data].slots[k].live

\* C29: after every unique_ptr operation the program is still defined, no
\* two unique_ptr objects hold the same non-null pointer, the source of a
\* move and a unique_ptr that release() was called on hold null, every
\* pointer held by a unique_ptr points to an object that has not been
\* deleted, and no object that release() handed out has been deleted.
C29_UniqueOwnership ==
    /\ fault \notin {"no_return", "double_delete"}
    /\ \A p \in Ptrs : \A q \in Ptrs \ {p} :
          (uptr[p].alive /\ uptr[q].alive /\ uptr[p].ptr_ # 0) =>
              uptr[p].ptr_ # uptr[q].ptr_
    /\ (ulast.op \in {"move_ctor", "move_assign"} /\ fault = "none") =>
          uptr[ulast.q].ptr_ = 0
    /\ (ulast.op = "release" /\ fault = "none") => uptr[ulast.p].ptr_ = 0
    /\ \A p \in Ptrs : (uptr[p].alive /\ uptr[p].ptr_ # 0) => objs[uptr[p].ptr_] = "live"
    /\ \A o \in held : objs[o] = "live"


\* C31: in every state of a vector, the source of a move and the two
\* vectors of a swap included, at(i) either throws out_of_range or returns a
\* reference to a slot that holds a live object inside the allocated block
\* the vector points to; it never goes through a null pointer or into a
\* freed block.
C31_AtIsSafe ==
    last.op = "at" =>
        /\ fault = "none"
        /\ last.viol = {}
        /\ \/ last.threw
           \/ LET p == last.ret.p
                  i == last.ret.i
              IN  /\ p # 0 /\ p = vec[last.v].data
                  /\ heap[p].alloc
                  /\ i < Len(heap[p].slots)
                  /\ heap[p].slots[i + 1].live


\* the number of slots of the block v points to: none for a null pointer or
\* a freed block
SlotsOf(st, v) ==
    LET p == st.vec[v].data
    IN  IF p = 0 \/ ~st.heap[p].alloc THEN 0 ELSE Len(st.heap[p].slots)

\* C32: in every state, after a move and after a constructor of an element
\* threw during a reallocation included, the capacity of a vector is at most
\* the number of slots of the block it points to, and so a push_back called
\* with length < capacity constructs the new element inside that block.
C32_CapacityWithinBlock ==
    /\ \A v \in Vecs : vec[v].alive => vec[v].cap <= SlotsOf(Cur, v)
    /\ (last.op = "push_back" /\ pre.vec[last.v].size < pre.vec[last.v].cap) =>
          fault = "none"


\* C33: pop_back, clear, erase, erase(first, last), resize(n) with
\* n <= capacity and reserve(n) with n <= capacity, called on a well-formed
\* vector, never reallocate: no block is allocated or freed, capacity and
\* the data pointer are as before and the block has the slots it had; and
\* reserve(n) with n <= capacity changes nothing at all.
C33_NoReallocation ==
    LET v == last.v
    IN  (/\ \/ last.op \in {"pop_back", "clear", "erase", "erase_range"}
            \/ last.op \in {"resize", "reserve"} /\ last.n <= pre.vec[v].cap
         /\ WellFormed(pre, v)) =>
            /\ fault = "none"
            /\ last.ev.allocs = 0 /\ last.ev.frees = 0
            /\ vec[v].cap = pre.vec[v].cap
            /\ vec[v].data = pre.vec[v].data
            /\ \A p \in Addrs :
                  /\ heap[p].alloc = pre.heap[p].alloc
                  /\ Len(heap[p].slots) = Len(pre.heap[p].slots)
            /\ last.op = "reserve" =>
                  /\ vec = pre.vec
                  /\ heap = pre.heap
                  /\ last.ev = NoEv

\* reserve(2) was called on a vector of two elements of Tracked with
\* capacity 2
C33_Witness ==
    /\ last.op = "reserve" /\ fault = "none"
    /\ ~trivial
    /\ last.n = 2
    /\ pre.vec[last.v].cap = 2 /\ pre.vec[last.v].size = 2
    /\ vec[last.v].data # 0

=============================================================================
